---- MODULE Spec2Model ----
(***************************************************************************)
(* Model of the branded-token.js client facades:                           *)
(*   - BrandedToken (contract interact for the BrandedToken contract)      *)
(*   - Staker       (BrandedToken requestStake through GatewayComposer)    *)
(* Every call is a one-shot request.  The connection is a recording        *)
(* double: `net` is the trace of reads (.call()) and submissions (.send)   *)
(* issued by the call in progress together with their results.             *)
(***************************************************************************)
EXTENDS Integers, Sequences, FiniteSets, TLC

(***************************************************************************)
(* Bounds of the model.                                                    *)
(***************************************************************************)
\* total number of submissions the run may make over all calls
MaxSubmissions == 2
\* longest address list handed to liftRestriction
MaxAddresses == 2

(***************************************************************************)
(* JavaScript values.  One record shape carries every value the operations *)
(* receive: undefined, null, numbers, strings and arrays of strings.       *)
(***************************************************************************)
Undefined == [kind |-> "undefined", s |-> "", n |-> 0, a |-> <<>>]
Null == [kind |-> "null", s |-> "", n |-> 0, a |-> <<>>]
Str(x) == [kind |-> "string", s |-> x, n |-> 0, a |-> <<>>]
Num(x) == [kind |-> "number", s |-> "", n |-> x, a |-> <<>>]
Arr(x) == [kind |-> "array", s |-> "", n |-> 0, a |-> x]

\* ToBoolean: undefined, null, '' and 0 are falsy, everything else truthy
Truthy(v) ==
    CASE v.kind = "undefined" -> FALSE
      [] v.kind = "null" -> FALSE
      [] v.kind = "string" -> v.s # ""
      [] v.kind = "number" -> v.n # 0
      [] OTHER -> TRUE

\* ToNumber: undefined is NaN, null and '' are 0, other strings used here
\* are not numeric literals
ToNumber(v) ==
    CASE v.kind = "number" -> [nan |-> FALSE, n |-> v.n]
      [] v.kind = "null" -> [nan |-> FALSE, n |-> 0]
      [] v.kind = "string" /\ v.s = "" -> [nan |-> FALSE, n |-> 0]
      [] v.kind = "array" /\ v.a = <<>> -> [nan |-> FALSE, n |-> 0]
      [] OTHER -> [nan |-> TRUE, n |-> 0]

\* v > c and v <= c as the relational operators evaluate them: any
\* comparison with NaN is false
JsGreater(v, c) == ~ToNumber(v).nan /\ ToNumber(v).n > c
JsLessEq(v, c) == ~ToNumber(v).nan /\ ToNumber(v).n <= c

\* addresses.length === 0
LengthIsZero(v) ==
    \/ v.kind = "array" /\ Len(v.a) = 0
    \/ v.kind = "string" /\ v.s = ""

(***************************************************************************)
(* Addresses and connections.                                              *)
(***************************************************************************)
WellFormedAddresses == {"0xA1", "0xB2", "0xC3", "0xD4", "0xE5"}

\* Web3.utils.isAddress
isAddress(v) == v.kind = "string" /\ v.s \in WellFormedAddresses

\* web3 instanceof Web3
IsWeb3(w) == w = "web3"
Connections == {"web3", "notWeb3"}

(***************************************************************************)
(* Transaction options.  A key that is absent reads as undefined.          *)
(***************************************************************************)
NoTxOptions == [present |-> FALSE, from |-> Undefined, to |-> Undefined, gas |-> Undefined]
TxOptions(from, gas) == [present |-> TRUE, from |-> from, to |-> Undefined, gas |-> gas]

TxOptionsSet ==
    { NoTxOptions,
      TxOptions(Undefined, Undefined),
      TxOptions(Str("0xZZ"), Undefined),
      TxOptions(Str("0xA1"), Undefined),
      TxOptions(Str("0xA1"), Str("21000")) }

\* Object.assign(target, source): every key of source overwrites target
ObjectAssign(target, source) ==
    [present |-> TRUE,
     from |-> IF source.from.kind # "undefined" THEN source.from ELSE target.from,
     to |-> IF source.to.kind # "undefined" THEN source.to ELSE target.to,
     gas |-> IF source.gas.kind # "undefined" THEN source.gas ELSE target.gas]

(***************************************************************************)
(* Transaction descriptors (unsent calls) and connection events.           *)
(***************************************************************************)
Tx(contract, method, args, data, options) ==
    [contract |-> contract, method |-> method, args |-> args,
     data |-> data, options |-> options]
NoTx == Tx("", "", <<>>, "", NoTxOptions)

\* a read (.call()) or a submission (.send / sendTransaction) with the
\* options handed to it, and the result the connection delivered for it
Event(kind, tx, options, value) ==
    [kind |-> kind, tx |-> tx, options |-> options, value |-> value]

Ok(tx) == [err |-> "", tx |-> tx]
Fail(e) == [err |-> e, tx |-> NoTx]

\* the pending submission (PromiEvent) returned by txObject.send
NoPending == [observers |-> {}, emitted |-> <<>>, ran |-> <<>>]
\* .on(event, handler)
On(event, handler) == [event |-> event, handler |-> handler]
\* the connection emits `event` on the pending submission: the handlers
\* registered under exactly that name run
Emit(p, event) ==
    [p EXCEPT !.emitted = Append(@, event),
              !.ran = IF \E o \in p.observers : o.event = event
                      THEN Append(@, (CHOOSE o \in p.observers :
                                         o.event = event).handler)
                      ELSE @]

ValidationError == "TypeError"
TransportErrors == {"revert", "transport"}
Receipts == {"0xC3", "0xD4"}

\* contract handles: Contracts.getBrandedToken / new web3.eth.Contract
Contract(name, web3, address, options) ==
    [name |-> name, web3 |-> web3, address |-> address, options |-> options]
NoContract == Contract("", "", Undefined, NoTxOptions)
NoClient == [web3 |-> "", address |-> Undefined, contract |-> NoContract]

NoResult ==
    [status |-> "none", error |-> "", value |-> Undefined, tx |-> NoTx, client |-> NoClient]
Rejected(e) == [NoResult EXCEPT !.status = "rejected", !.error = e]
Thrown(e) == [NoResult EXCEPT !.status = "thrown", !.error = e]
Resolved(v) == [NoResult EXCEPT !.status = "resolved", !.value = v]
ResolvedTx(t) == [NoResult EXCEPT !.status = "resolved", !.tx = t]
ReturnedTx(t) == [NoResult EXCEPT !.status = "returned", !.tx = t]
ResolvedClient(c) == [NoResult EXCEPT !.status = "resolved", !.client = c]
ReturnedClient(c) == [NoResult EXCEPT !.status = "returned", !.client = c]

VARIABLES
    bt,           \* the BrandedToken client: web3, address, contract
    staker,       \* the Staker instance fields set by its constructor
    call,         \* the operation in progress and its arguments
    pc,           \* idle | reading | sending | settled
    net,          \* connection trace of the call in progress
    result,       \* what the call in progress has yielded
    submissions,  \* submissions made through the connection over the run
    pending       \* the pending submission a call holds: observers
                  \* registered with .on, events emitted, handlers run

vars == <<bt, staker, call, pc, net, result, submissions, pending>>

Call(op, web3, args, txOptions, ambient) ==
    [op |-> op, web3 |-> web3, args |-> args, txOptions |-> txOptions,
     ambient |-> ambient]
NoCall == Call("", "", <<>>, NoTxOptions, {})

\* ContractName, symbol/name/decimals are passed through untouched
ContractName == "BrandedToken"
gatewayComposerContractName == "GatewayComposer"
brandedTokenContractName == "BrandedToken"

(***************************************************************************)
(* Collaborators.                                                          *)
(***************************************************************************)
\* contracts the registry (AbiBinProvider) knows
RegistryContracts == {"BrandedToken", "GatewayComposer"}

\* AbiBinProvider.getBIN(ContractName)
getBIN(name) == IF name \in RegistryContracts THEN "bin:BrandedToken" ELSE ""

\* Contracts.getBrandedToken(web3, address): the contract handle bound to
\* the address, or nothing when the registry cannot locate the contract
getBrandedToken(web3, address) ==
    IF ContractName \in RegistryContracts
    THEN Contract(ContractName, web3, address, NoTxOptions)
    ELSE NoContract

\* contract.methods.<method>(...args): an unsent call bound to the handle
Method(contract, method, args) ==
    Tx(contract.address.s, method, args, "", contract.options)

\* the last request the connection has recorded
LastRequest(log) == log[Len(log)]

(***************************************************************************)
(* Steps of a call: settle without touching the connection, issue a read,  *)
(* or hand a descriptor to the TransactionSender.                          *)
(***************************************************************************)
Settle(r, log) ==
    /\ pc' = "settled"
    /\ result' = r
    /\ net' = log
    /\ UNCHANGED <<submissions, pending>>

\* contract.methods.<read>(...).call()
IssueRead(tx, log) ==
    /\ pc' = "reading"
    /\ result' = NoResult
    /\ net' = Append(log, Event("call", tx, NoTxOptions, ""))
    /\ UNCHANGED <<submissions, pending>>

\* Utils.sendTransaction(tx, txOptions): the caller gets a promise and
\* registers no observer
sendTransaction(tx, txOptions, log) ==
    /\ pc' = "sending"
    /\ result' = NoResult
    /\ net' = Append(log, Event("send", tx, txOptions, ""))
    /\ submissions' = submissions + 1
    /\ pending' = NoPending

\* a new call starts when no call is in progress
CanBegin == pc = "idle"
CanBeginSubmitting == CanBegin /\ submissions < MaxSubmissions

(***************************************************************************)
(* BrandedToken                                                            *)
(***************************************************************************)
\* mutant: the handle the registry returned is not checked
constructor_HandleUnchecked(web3, address, contract) ==
    IF ~IsWeb3(web3) THEN [err |-> ValidationError, client |-> NoClient]
    ELSE IF ~isAddress(address) THEN [err |-> ValidationError, client |-> NoClient]
    ELSE [err |-> "",
          client |-> [web3 |-> web3, address |-> address, contract |-> contract]]

\* the constructor's body; `contract` is what
\* Contracts.getBrandedToken(this.web3, this.address) returned
constructor(web3, address, contract) ==
    IF ~IsWeb3(web3) THEN [err |-> ValidationError, client |-> NoClient]
    ELSE IF ~isAddress(address) THEN [err |-> ValidationError, client |-> NoClient]
    ELSE IF contract = NoContract
         THEN [err |-> ValidationError, client |-> NoClient]
    ELSE [err |-> "",
          client |-> [web3 |-> web3, address |-> address, contract |-> contract]]

\* new BrandedToken(web3, address) where the registry locates the contract
BrandedToken(web3, address) ==
    constructor(web3, address, getBrandedToken(web3, address))

\* the guard every submitting method of BrandedToken starts with
InvalidTxOptions(txOptions) ==
    \/ ~txOptions.present
    \/ ~isAddress(txOptions.from)

\* mutant: a conversion rate of zero is let through
deployRawTx_ZeroRate(web3, valueToken, symbol, name, decimals, conversionRate, conversionRateDecimals, organization) ==
    IF ~IsWeb3(web3) THEN Fail(ValidationError)
    ELSE IF ~isAddress(valueToken) THEN Fail(ValidationError)
    ELSE IF ~isAddress(organization) THEN Fail(ValidationError)
    ELSE IF ~JsGreater(conversionRate, -1) THEN Fail(ValidationError)
    ELSE IF ~JsLessEq(conversionRateDecimals, 5) THEN Fail(ValidationError)
    ELSE Ok(Tx("", "deploy",
               <<valueToken, symbol, name, decimals, conversionRate,
                 conversionRateDecimals, organization>>,
               getBIN(ContractName), NoTxOptions))

\* mutant: the constructor arguments start with the organization
deployRawTx_ArgsReordered(web3, valueToken, symbol, name, decimals, conversionRate, conversionRateDecimals, organization) ==
    IF ~IsWeb3(web3) THEN Fail(ValidationError)
    ELSE IF ~isAddress(valueToken) THEN Fail(ValidationError)
    ELSE IF ~isAddress(organization) THEN Fail(ValidationError)
    ELSE IF ~JsGreater(conversionRate, 0) THEN Fail(ValidationError)
    ELSE IF ~JsLessEq(conversionRateDecimals, 5) THEN Fail(ValidationError)
    ELSE Ok(Tx("", "deploy",
               <<organization, symbol, name, decimals, conversionRate,
                 conversionRateDecimals, valueToken>>,
               getBIN(ContractName), NoTxOptions))

deployRawTx(web3, valueToken, symbol, name, decimals, conversionRate, conversionRateDecimals, organization) ==
    IF ~IsWeb3(web3) THEN Fail(ValidationError)
    ELSE IF ~isAddress(valueToken) THEN Fail(ValidationError)
    ELSE IF ~isAddress(organization) THEN Fail(ValidationError)
    ELSE IF ~JsGreater(conversionRate, 0) THEN Fail(ValidationError)
    ELSE IF ~JsLessEq(conversionRateDecimals, 5) THEN Fail(ValidationError)
    ELSE Ok(Tx("", "deploy",
               <<valueToken, symbol, name, decimals, conversionRate,
                 conversionRateDecimals, organization>>,
               getBIN(ContractName), NoTxOptions))

\* mutant: the two amounts change places
requestStakeRawTx_Swapped(stakeAmount, mintAmount) ==
    Ok(Method(bt.contract, "requestStake", <<mintAmount, stakeAmount>>))

requestStakeRawTx(stakeAmount, mintAmount) ==
    Ok(Method(bt.contract, "requestStake", <<stakeAmount, mintAmount>>))

\* mutant: v of the signature is not checked
acceptStakeRequestRawTx_VUnchecked(stakeRequestHash, r, s, v) ==
    IF ~Truthy(stakeRequestHash) THEN Fail(ValidationError)
    ELSE IF ~Truthy(r) THEN Fail(ValidationError)
    ELSE IF ~Truthy(s) THEN Fail(ValidationError)
    ELSE Ok(Method(bt.contract, "acceptStakeRequest", <<stakeRequestHash, r, s, v>>))

acceptStakeRequestRawTx(stakeRequestHash, r, s, v) ==
    IF ~Truthy(stakeRequestHash) THEN Fail(ValidationError)
    ELSE IF ~Truthy(r) THEN Fail(ValidationError)
    ELSE IF ~Truthy(s) THEN Fail(ValidationError)
    ELSE IF ~Truthy(v) THEN Fail(ValidationError)
    ELSE Ok(Method(bt.contract, "acceptStakeRequest", <<stakeRequestHash, r, s, v>>))

\* mutant: the empty list is let through
liftRestrictionRawTx_EmptyAllowed(addresses) ==
    IF ~Truthy(addresses) THEN Fail(ValidationError)
    ELSE Ok(Method(bt.contract, "liftRestriction", <<addresses>>))

liftRestrictionRawTx(addresses) ==
    IF ~Truthy(addresses) \/ LengthIsZero(addresses) THEN Fail(ValidationError)
    ELSE Ok(Method(bt.contract, "liftRestriction", <<addresses>>))

rejectStakeRequestRawTx(stakeRequestHash) ==
    IF ~Truthy(stakeRequestHash) THEN Fail(ValidationError)
    ELSE Ok(Method(bt.contract, "rejectStakeRequest", <<stakeRequestHash>>))

\* mutant: a falsy amount is let through
redeemRawTx_AmountUnchecked(amount) ==
    Ok(Method(bt.contract, "redeem", <<amount>>))

redeemRawTx(amount) ==
    IF ~Truthy(amount) THEN Fail(ValidationError)
    ELSE Ok(Method(bt.contract, "redeem", <<amount>>))

\* const tx = await this.<x>RawTx(...); return Utils.sendTransaction(tx, txOptions)
AwaitRawThenSend(raw, txOptions) ==
    IF raw.err # ""
    THEN Settle(Rejected(raw.err), <<>>)
    ELSE sendTransaction(raw.tx, txOptions, <<>>)

(***************************************************************************)
(* Inputs.                                                                 *)
(***************************************************************************)
AddressVals == {Str("0xA1"), Str("0xB2"), Str("0xZZ"), Undefined}
RateVals == {Num(-1), Num(0), Num(1), Num(35), Undefined, Null}
DecimalVals == {Num(0), Num(5), Num(6), Undefined, Null}
FieldVals == {Undefined, Null, Str(""), Num(0), Str("0xh1"), Num(27)}
AmountVals == {Undefined, Num(0), Str("100"), Num(5)}
ReadValues == {Str("350"), Str("700")}
AddressSeqs(k) == UNION {[1..m -> {"0xA1", "0xB2"}] : m \in 0..k}
AddressLists == {Undefined, Null} \cup {Arr(l) : l \in AddressSeqs(MaxAddresses)}
AbiVals == {Undefined, Arr(<<>>), Arr(<<"approve">>)}
AmbientNames == {"oThis", "originWeb3", "txOptions"}

Symbol == Str("BT")
Name == Str("BrandedToken")
Decimals == Str("18")

(***************************************************************************)
(* BrandedToken: submitting forms.                                         *)
(***************************************************************************)
deploy(web3, valueToken, conversionRate, conversionRateDecimals, organization, txOptions) ==
    /\ CanBeginSubmitting
    /\ call' = Call("deploy", web3,
                    <<valueToken, Symbol, Name, Decimals, conversionRate,
                      conversionRateDecimals, organization>>, txOptions, {})
    /\ IF InvalidTxOptions(txOptions)
       THEN Settle(Rejected(ValidationError), <<>>)
       ELSE LET tx == deployRawTx(web3, valueToken, Symbol, Name, Decimals,
                                  conversionRate, conversionRateDecimals,
                                  organization)
            IN IF tx.err # ""
               THEN Settle(Rejected(tx.err), <<>>)
               ELSE sendTransaction(tx.tx, txOptions, <<>>)
    /\ UNCHANGED <<bt, staker>>

\* this.contract.methods.convertToBrandedTokens(valueTokens) (the read's
\* descriptor; .call() issues it)
convertToBrandedTokens(valueTokens) ==
    Method(bt.contract, "convertToBrandedTokens", <<valueTokens>>)

requestStake(stakeAmount, txOptions) ==
    /\ CanBeginSubmitting
    /\ call' = Call("requestStake", bt.web3, <<stakeAmount>>, txOptions, {})
    /\ IF InvalidTxOptions(txOptions)
       THEN Settle(Rejected(ValidationError), <<>>)
       ELSE IssueRead(convertToBrandedTokens(stakeAmount), <<>>)
    /\ UNCHANGED <<bt, staker>>

acceptStakeRequest(stakeRequestHash, r, s, v, txOptions) ==
    /\ CanBeginSubmitting
    /\ call' = Call("acceptStakeRequest", bt.web3, <<stakeRequestHash, r, s, v>>,
                    txOptions, {})
    /\ IF InvalidTxOptions(txOptions)
       THEN Settle(Rejected(ValidationError), <<>>)
       ELSE AwaitRawThenSend(acceptStakeRequestRawTx(stakeRequestHash, r, s, v),
                             txOptions)
    /\ UNCHANGED <<bt, staker>>

liftRestriction(addresses, txOptions) ==
    /\ CanBeginSubmitting
    /\ call' = Call("liftRestriction", bt.web3, <<addresses>>, txOptions, {})
    /\ IF InvalidTxOptions(txOptions)
       THEN Settle(Rejected(ValidationError), <<>>)
       ELSE AwaitRawThenSend(liftRestrictionRawTx(addresses), txOptions)
    /\ UNCHANGED <<bt, staker>>

rejectStakeRequest(stakeRequestHash, txOptions) ==
    /\ CanBeginSubmitting
    /\ call' = Call("rejectStakeRequest", bt.web3, <<stakeRequestHash>>,
                    txOptions, {})
    /\ IF InvalidTxOptions(txOptions)
       THEN Settle(Rejected(ValidationError), <<>>)
       ELSE AwaitRawThenSend(rejectStakeRequestRawTx(stakeRequestHash), txOptions)
    /\ UNCHANGED <<bt, staker>>

\* mutant: the `from` address is not validated
redeem_FromUnchecked(amount, txOptions) ==
    /\ CanBeginSubmitting
    /\ call' = Call("redeem", bt.web3, <<amount>>, txOptions, {})
    /\ IF ~txOptions.present
       THEN Settle(Rejected(ValidationError), <<>>)
       ELSE AwaitRawThenSend(redeemRawTx(amount), txOptions)
    /\ UNCHANGED <<bt, staker>>

redeem(amount, txOptions) ==
    /\ CanBeginSubmitting
    /\ call' = Call("redeem", bt.web3, <<amount>>, txOptions, {})
    /\ IF InvalidTxOptions(txOptions)
       THEN Settle(Rejected(ValidationError), <<>>)
       ELSE AwaitRawThenSend(redeemRawTx(amount), txOptions)
    /\ UNCHANGED <<bt, staker>>

(***************************************************************************)
(* BrandedToken: raw forms called directly.                                *)
(***************************************************************************)
\* mutant: the raw form hands its descriptor to the sender
RawPromise_Sends(raw) ==
    IF raw.err # "" THEN Settle(Rejected(raw.err), <<>>)
    ELSE sendTransaction(raw.tx, NoTxOptions, <<>>)

\* a raw form that returns a promise of the descriptor
RawPromise(raw) ==
    IF raw.err # "" THEN Settle(Rejected(raw.err), <<>>)
    ELSE Settle(ResolvedTx(raw.tx), <<>>)

\* a raw form that returns the descriptor or throws
RawReturn(raw) ==
    IF raw.err # "" THEN Settle(Thrown(raw.err), <<>>)
    ELSE Settle(ReturnedTx(raw.tx), <<>>)

\* new BrandedToken(web3, address) by a caller, who from then on works with
\* the client it returned; `located` is whether the registry finds the
\* contract, and the handle it returned is kept with the call's arguments
new_BrandedToken(web3, address, located) ==
    /\ CanBegin
    /\ LET contract == IF located THEN getBrandedToken(web3, address)
                       ELSE NoContract
           made == constructor(web3, address, contract)
       IN /\ call' = Call("new BrandedToken", web3, <<address, contract>>,
                          NoTxOptions, {})
          /\ IF made.err # ""
             THEN Settle(Thrown(made.err), <<>>) /\ bt' = bt
             ELSE Settle(ReturnedClient(made.client), <<>>) /\ bt' = made.client
    /\ UNCHANGED staker

Call_deployRawTx(web3, valueToken, conversionRate, conversionRateDecimals, organization) ==
    /\ CanBegin
    /\ call' = Call("deployRawTx", web3,
                    <<valueToken, Symbol, Name, Decimals, conversionRate,
                      conversionRateDecimals, organization>>, NoTxOptions, {})
    /\ RawReturn(deployRawTx(web3, valueToken, Symbol, Name, Decimals,
                             conversionRate, conversionRateDecimals, organization))
    /\ UNCHANGED <<bt, staker>>

Call_requestStakeRawTx(stakeAmount, mintAmount) ==
    /\ CanBegin
    /\ call' = Call("requestStakeRawTx", bt.web3, <<stakeAmount, mintAmount>>,
                    NoTxOptions, {})
    /\ RawPromise(requestStakeRawTx(stakeAmount, mintAmount))
    /\ UNCHANGED <<bt, staker>>

Call_acceptStakeRequestRawTx(stakeRequestHash, r, s, v) ==
    /\ CanBegin
    /\ call' = Call("acceptStakeRequestRawTx", bt.web3,
                    <<stakeRequestHash, r, s, v>>, NoTxOptions, {})
    /\ RawPromise(acceptStakeRequestRawTx(stakeRequestHash, r, s, v))
    /\ UNCHANGED <<bt, staker>>

Call_liftRestrictionRawTx(addresses) ==
    /\ CanBegin
    /\ call' = Call("liftRestrictionRawTx", bt.web3, <<addresses>>, NoTxOptions, {})
    /\ RawPromise(liftRestrictionRawTx(addresses))
    /\ UNCHANGED <<bt, staker>>

Call_rejectStakeRequestRawTx(stakeRequestHash) ==
    /\ CanBegin
    /\ call' = Call("rejectStakeRequestRawTx", bt.web3, <<stakeRequestHash>>,
                    NoTxOptions, {})
    /\ RawPromise(rejectStakeRequestRawTx(stakeRequestHash))
    /\ UNCHANGED <<bt, staker>>

Call_redeemRawTx(amount) ==
    /\ CanBegin
    /\ call' = Call("redeemRawTx", bt.web3, <<amount>>, NoTxOptions, {})
    /\ RawPromise(redeemRawTx(amount))
    /\ UNCHANGED <<bt, staker>>

(***************************************************************************)
(* Staker (GatewayComposer)                                                *)
(***************************************************************************)
StakeVTAmountInWei == Str("100")
MintBTAmountInWei == Str("350")
GatewayAddress == Str("0xB2")
Beneficiary == Str("0xA1")
GasPrice == Str("1")
GasLimit == Str("9000")
StakerGatewayNonce == Num(1)
OwnerVals == {Str("0xA1"), Str("0xB2")}

\* originWeb3 || oThis.originWeb3 ("" is a missing connection argument)
OrWeb3(originWeb3, stored) == IF originWeb3 # "" THEN originWeb3 ELSE stored

\* values of the ambient bindings, when the environment defines them
ambientOriginWeb3 == "web3"
ambientTxOptions == NoTxOptions

\* new Staker(originWeb3, valueToken, brandedToken, gatewayComposer, txOptions)
Staker(originWeb3, valueToken, brandedToken, gatewayComposer, txOptions) ==
    [originWeb3 |-> originWeb3, valueToken |-> valueToken,
     gatewayComposer |-> gatewayComposer, brandedToken |-> brandedToken,
     txOptions |-> txOptions]

_requestStakeRawTx(owner, stakeVTAmountInWei, mintBTAmountInWei, gatewayAddress, beneficiary, gasPrice, gasLimit, nonce, originWeb3, txOptions) ==
    LET web3 == OrWeb3(originWeb3, staker.originWeb3)
        defaultOptions ==
            [present |-> TRUE, from |-> owner, to |-> staker.gatewayComposer,
             gas |-> Str("8000000")]
        merged == IF txOptions.present
                  THEN ObjectAssign(defaultOptions, txOptions)
                  ELSE defaultOptions
        contract == Contract(gatewayComposerContractName, web3,
                             staker.gatewayComposer, merged)
    IN IF web3 = "" THEN Fail("TypeError")
       ELSE Ok(Method(contract, "requestStake",
                      <<stakeVTAmountInWei, mintBTAmountInWei, gatewayAddress,
                        beneficiary, gasPrice, gasLimit, nonce>>))

\* approveForValueToken reads `originWeb3` and `txOptions`, which are neither
\* parameters nor locals: each resolves only if the environment binds it
approveForValueToken(valueTokenAbi, stakeAmountInWei, ambient) ==
    IF "originWeb3" \notin ambient THEN Fail("ReferenceError")
    ELSE IF valueTokenAbi.kind # "array" THEN Fail("TypeError")
    ELSE IF Len(valueTokenAbi.a) = 0 THEN Fail("Error")
    ELSE IF "txOptions" \notin ambient THEN Fail("ReferenceError")
    ELSE Ok(Method(Contract("ValueToken",
                            OrWeb3(ambientOriginWeb3, staker.originWeb3),
                            staker.valueToken, ambientTxOptions),
                   "approve", <<staker.gatewayComposer, stakeAmountInWei>>))

\* the three .on(...) of requestStake, under the event names it passes
requestStakeObservers ==
    { On("transactionHash of request stake", "logTransactionHash"),
      On("receipt of request stake", "logReceipt"),
      On("error", "logError") }

\* return txObject.send(txOptions).on(...).on(...).on(...)
send(tx, txOptions) ==
    /\ pc' = "sending"
    /\ result' = NoResult
    /\ net' = <<Event("send", tx, txOptions, "")>>
    /\ submissions' = submissions + 1
    /\ pending' = [NoPending EXCEPT !.observers = requestStakeObservers]

Staker_requestStake(owner, originWeb3, txOptions) ==
    /\ CanBeginSubmitting
    /\ call' = Call("Staker.requestStake", originWeb3, <<owner>>, txOptions, {})
    /\ LET txObject == _requestStakeRawTx(owner, StakeVTAmountInWei,
                           MintBTAmountInWei, GatewayAddress, Beneficiary,
                           GasPrice, GasLimit, StakerGatewayNonce, originWeb3,
                           txOptions)
       IN IF txObject.err # ""
          THEN Settle(Thrown(txObject.err), <<>>)
          ELSE send(txObject.tx, txOptions)
    /\ UNCHANGED <<bt, staker>>

\* stake reads `oThis`, which it never declares; with it bound to the
\* instance, the approval descriptor is awaited (never sent) and
\* requestStake follows
Staker_stake(valueTokenAbi, owner, ambient) ==
    /\ CanBeginSubmitting
    /\ call' = Call("Staker.stake", staker.originWeb3, <<owner, valueTokenAbi>>,
                    staker.txOptions, ambient)
    /\ IF "oThis" \notin ambient
       THEN Settle(Rejected("ReferenceError"), <<>>)
       ELSE LET approval == approveForValueToken(valueTokenAbi,
                                                 StakeVTAmountInWei, ambient)
                txObject == _requestStakeRawTx(owner, StakeVTAmountInWei,
                                MintBTAmountInWei, GatewayAddress, Beneficiary,
                                GasPrice, GasLimit, StakerGatewayNonce,
                                staker.originWeb3, staker.txOptions)
            IN IF approval.err # ""
               THEN Settle(Rejected(approval.err), <<>>)
               ELSE IF txObject.err # ""
               THEN Settle(Rejected(txObject.err), <<>>)
               ELSE send(txObject.tx, staker.txOptions)
    /\ UNCHANGED <<bt, staker>>

Call_requestStakeRawTx_Staker(owner, originWeb3, txOptions) ==
    /\ CanBegin
    /\ call' = Call("Staker._requestStakeRawTx", originWeb3, <<owner>>,
                    txOptions, {})
    /\ RawReturn(_requestStakeRawTx(owner, StakeVTAmountInWei, MintBTAmountInWei,
                                    GatewayAddress, Beneficiary, GasPrice,
                                    GasLimit, StakerGatewayNonce, originWeb3,
                                    txOptions))
    /\ UNCHANGED <<bt, staker>>

Call_approveForValueToken(valueTokenAbi, ambient) ==
    /\ CanBegin
    /\ call' = Call("Staker.approveForValueToken", staker.originWeb3,
                    <<valueTokenAbi>>, NoTxOptions, ambient)
    /\ RawReturn(approveForValueToken(valueTokenAbi, StakeVTAmountInWei, ambient))
    /\ UNCHANGED <<bt, staker>>

\* oThis.web3: a property the Staker constructor never assigns reads as
\* undefined ("")
oThis_web3 == IF "web3" \in DOMAIN staker THEN staker.web3 ELSE ""

\* const contract = new web3.eth.Contract(abi, address, txOptions);
\* return contract.methods.<method>(arg).call()
\* (`web3.eth` of an undefined web3 throws a TypeError)
ReadThrough(web3, name, address, txOptions, method, arg) ==
    IF web3 = ""
    THEN Settle(Thrown("TypeError"), <<>>)
    ELSE IssueRead(Method(Contract(name, web3, address, txOptions), method,
                          <<arg>>), <<>>)

convertToBTToken(vtAmountInWei, brandedTokenContractAddress, originWeb3, txOptions) ==
    /\ CanBegin
    /\ call' = Call("Staker.convertToBTToken", originWeb3,
                    <<vtAmountInWei, brandedTokenContractAddress>>, txOptions, {})
    /\ ReadThrough(OrWeb3(originWeb3, staker.originWeb3),
                   brandedTokenContractName,
                   IF Truthy(brandedTokenContractAddress)
                   THEN brandedTokenContractAddress ELSE staker.brandedToken,
                   txOptions, "convertToBrandedTokens", vtAmountInWei)
    /\ UNCHANGED <<bt, staker>>

_getStakeRequestHashForStakerRawTx(stakerAddress, originWeb3, txOptions) ==
    /\ CanBegin
    /\ call' = Call("Staker._getStakeRequestHashForStakerRawTx", originWeb3,
                    <<stakerAddress>>, txOptions, {})
    /\ ReadThrough(OrWeb3(originWeb3, oThis_web3), brandedTokenContractName,
                   staker.brandedToken, txOptions, "stakeRequestHashes",
                   stakerAddress)
    /\ UNCHANGED <<bt, staker>>

_getStakeRequestRawTx(stakeRequestHash, originWeb3, txOptions) ==
    /\ CanBegin
    /\ call' = Call("Staker._getStakeRequestRawTx", originWeb3,
                    <<stakeRequestHash>>, txOptions, {})
    /\ ReadThrough(OrWeb3(originWeb3, oThis_web3), brandedTokenContractName,
                   staker.brandedToken, txOptions, "stakeRequests",
                   stakeRequestHash)
    /\ UNCHANGED <<bt, staker>>

_getGCStakeRequestRawTx(stakeRequestHash, originWeb3, txOptions) ==
    /\ CanBegin
    /\ call' = Call("Staker._getGCStakeRequestRawTx", originWeb3,
                    <<stakeRequestHash>>, txOptions, {})
    /\ ReadThrough(OrWeb3(originWeb3, oThis_web3), gatewayComposerContractName,
                   staker.gatewayComposer, txOptions, "stakeRequests",
                   stakeRequestHash)
    /\ UNCHANGED <<bt, staker>>

(***************************************************************************)
(* The connection answers.                                                 *)
(***************************************************************************)
\* mutant: deploy binds the new client to the value token's address
WhenSent_WrongAddress(receipt) ==
    IF call.op = "deploy"
    THEN LET made == BrandedToken(call.web3, call.args[1])
         IN IF made.err # "" THEN Rejected(made.err)
            ELSE ResolvedClient(made.client)
    ELSE IF call.op = "Staker.stake" THEN Resolved(Undefined)
    ELSE Resolved(Str(receipt))

\* what the call yields when the pending submission resolves
WhenSent(receipt) ==
    IF call.op = "deploy"
    THEN LET made == BrandedToken(call.web3, Str(receipt))
         IN IF made.err # "" THEN Rejected(made.err)
            ELSE ResolvedClient(made.client)
    ELSE IF call.op = "Staker.stake" THEN Resolved(Undefined)
    ELSE Resolved(Str(receipt))

\* what the caller's observers see of an emission: the events of a
\* submission made through Utils.sendTransaction stay inside the sender
Observed(event) == IF pending = NoPending THEN NoPending ELSE Emit(pending, event)

\* the connection announces the transaction hash of a pending submission,
\* once, before it delivers a receipt
emitTransactionHash ==
    /\ pc = "sending"
    /\ pending # NoPending
    /\ pending.emitted = <<>>
    /\ pending' = Emit(pending, "transactionHash")
    /\ UNCHANGED <<bt, staker, call, pc, net, result, submissions>>

\* (an observed submission has announced its hash before its receipt)
sendResolves(receipt) ==
    /\ pc = "sending"
    /\ pending = NoPending \/ pending.emitted # <<>>
    /\ pc' = "settled"
    /\ net' = Append(net, Event("receipt", LastRequest(net).tx,
                                LastRequest(net).options, receipt))
    /\ result' = WhenSent(receipt)
    /\ pending' = Observed("receipt")
    /\ UNCHANGED <<bt, staker, call, submissions>>

sendRejects(e) ==
    /\ pc = "sending"
    /\ pc' = "settled"
    /\ net' = Append(net, Event("error", LastRequest(net).tx,
                                LastRequest(net).options, e))
    /\ result' = Rejected(e)
    /\ pending' = Observed("error")
    /\ UNCHANGED <<bt, staker, call, submissions>>

\* requestStake resumes after `await this.convertToBrandedTokens(stakeAmount)`;
\* the Staker's reads return the promise of .call() itself
readResolves(mintedAmount) ==
    /\ pc = "reading"
    /\ LET log == Append(net, Event("value", LastRequest(net).tx, NoTxOptions,
                                    mintedAmount.s))
           tx == requestStakeRawTx(call.args[1], mintedAmount)
       IN IF call.op # "requestStake"
          THEN Settle(Resolved(mintedAmount), log)
          ELSE IF tx.err # ""
          THEN Settle(Rejected(tx.err), log)
          ELSE sendTransaction(tx.tx, call.txOptions, log)
    /\ UNCHANGED <<bt, staker, call>>

readRejects(e) ==
    /\ pc = "reading"
    /\ Settle(Rejected(e),
              Append(net, Event("error", LastRequest(net).tx, NoTxOptions, e)))
    /\ UNCHANGED <<bt, staker, call>>

\* the caller takes the settled outcome; the call's descriptor and trace
\* are discarded and the next call can start
Discard ==
    /\ pc = "settled"
    /\ pc' = "idle"
    /\ call' = NoCall
    /\ net' = <<>>
    /\ result' = NoResult
    /\ pending' = NoPending
    /\ UNCHANGED <<bt, staker, submissions>>

(***************************************************************************)
(* Specification.                                                          *)
(***************************************************************************)
StakerTxOptions == {NoTxOptions, TxOptions(Str("0xA1"), Str("21000"))}
LookupAmounts == {Str("100")}
LookupAddresses == {Undefined, Str("0xD4")}
LookupHashes == {Str("0xh1"), Str("0xh2")}

Init ==
    /\ bt = BrandedToken("web3", Str("0xC3")).client
    /\ staker \in {Staker("web3", Str("0xD4"), Str("0xC3"), Str("0xE5"), o) :
                      o \in StakerTxOptions}
    /\ call = NoCall
    /\ pc = "idle"
    /\ net = <<>>
    /\ result = NoResult
    /\ submissions = 0
    /\ pending = NoPending

\* a caller starts a call only while no call is in progress (CanBegin is
\* restated ahead of the inputs so that they are enumerated only then)
Next ==
    \/ CanBegin /\ \E w \in Connections, vt \in AddressVals, cr \in RateVals,
          cd \in DecimalVals, org \in AddressVals, o \in TxOptionsSet :
          deploy(w, vt, cr, cd, org, o)
    \/ CanBegin /\ \E a \in AmountVals, o \in TxOptionsSet : requestStake(a, o)
    \/ CanBegin /\ \E h \in FieldVals, r \in FieldVals, s \in FieldVals,
          v \in FieldVals, o \in TxOptionsSet : acceptStakeRequest(h, r, s, v, o)
    \/ CanBegin /\ \E l \in AddressLists, o \in TxOptionsSet : liftRestriction(l, o)
    \/ CanBegin /\ \E h \in FieldVals, o \in TxOptionsSet : rejectStakeRequest(h, o)
    \/ CanBegin /\ \E a \in AmountVals, o \in TxOptionsSet : redeem(a, o)
    \/ CanBegin /\ \E w \in Connections, a \in AddressVals, l \in BOOLEAN :
          new_BrandedToken(w, a, l)
    \/ CanBegin /\ \E w \in Connections, vt \in AddressVals, cr \in RateVals,
          cd \in DecimalVals, org \in AddressVals :
          Call_deployRawTx(w, vt, cr, cd, org)
    \/ CanBegin /\ \E a \in AmountVals, m \in ReadValues :
          Call_requestStakeRawTx(a, m)
    \/ CanBegin /\ \E h \in FieldVals, r \in FieldVals, s \in FieldVals,
          v \in FieldVals : Call_acceptStakeRequestRawTx(h, r, s, v)
    \/ CanBegin /\ \E l \in AddressLists : Call_liftRestrictionRawTx(l)
    \/ CanBegin /\ \E h \in FieldVals : Call_rejectStakeRequestRawTx(h)
    \/ CanBegin /\ \E a \in AmountVals : Call_redeemRawTx(a)
    \/ CanBegin /\ \E ow \in OwnerVals, w \in {"", "web3"}, o \in TxOptionsSet :
          Staker_requestStake(ow, w, o)
    \/ CanBegin /\ \E abi \in AbiVals, ow \in OwnerVals,
          amb \in SUBSET AmbientNames : Staker_stake(abi, ow, amb)
    \/ CanBegin /\ \E ow \in OwnerVals, w \in {"", "web3"}, o \in TxOptionsSet :
          Call_requestStakeRawTx_Staker(ow, w, o)
    \/ CanBegin /\ \E abi \in AbiVals, amb \in SUBSET AmbientNames :
          Call_approveForValueToken(abi, amb)
    \/ CanBegin /\ \E a \in LookupAmounts, b \in LookupAddresses,
          w \in {"", "web3"}, o \in StakerTxOptions : convertToBTToken(a, b, w, o)
    \/ CanBegin /\ \E a \in OwnerVals, w \in {"", "web3"},
          o \in StakerTxOptions : _getStakeRequestHashForStakerRawTx(a, w, o)
    \/ CanBegin /\ \E h \in LookupHashes, w \in {"", "web3"},
          o \in StakerTxOptions : _getStakeRequestRawTx(h, w, o)
    \/ CanBegin /\ \E h \in LookupHashes, w \in {"", "web3"},
          o \in StakerTxOptions : _getGCStakeRequestRawTx(h, w, o)
    \/ emitTransactionHash
    \/ \E r \in Receipts : sendResolves(r)
    \/ \E e \in TransportErrors : sendRejects(e)
    \/ \E m \in ReadValues : readResolves(m)
    \/ \E e \in TransportErrors : readRejects(e)
    \/ Discard

Spec == Init /\ [][Next]_vars

(***************************************************************************)
(* Vocabulary of the properties, stated without the operators the          *)
(* operations themselves use.                                              *)
(***************************************************************************)
BrandedTokenSubmitting ==
    {"deploy", "requestStake", "acceptStakeRequest", "rejectStakeRequest",
     "liftRestriction", "redeem"}
StakerSubmitting == {"Staker.requestStake", "Staker.stake"}
RawForms ==
    {"deployRawTx", "requestStakeRawTx", "acceptStakeRequestRawTx",
     "rejectStakeRequestRawTx", "liftRestrictionRawTx", "redeemRawTx",
     "Staker._requestStakeRawTx"}

WellFormed(v) == v \in {Str(x) : x \in WellFormedAddresses}
WellFormedFrom(o) == o.present /\ WellFormed(o.from)
Falsy(v) == v \in {Undefined, Null, Str(""), Num(0)}

\* the reads and submissions the connection has recorded
Requests(log) == SelectSeq(log, LAMBDA e : e.kind \in {"call", "send"})
Sends(log) == SelectSeq(log, LAMBDA e : e.kind = "send")
\* the last thing the connection has recorded, if any
LastEvent == IF net = <<>> THEN Event("", NoTx, NoTxOptions, "") ELSE net[Len(net)]
InProgress == pc # "idle"
RejectedBeforeNetwork ==
    /\ pc = "settled"
    /\ result = Rejected(ValidationError)
    /\ net = <<>>

(***************************************************************************)
(* C1                                                                      *)
(***************************************************************************)
\* C1 as stated: whenever any mutating operation (the six of BrandedToken,
\* and the Staker's requestStake and stake) runs with a missing txOptions or
\* a malformed `from`, it has rejected and the connection has recorded no
\* read and no submission.
C1_EveryMutatingOperationRejectsMalformedFrom ==
    (/\ InProgress
     /\ call.op \in BrandedTokenSubmitting \cup StakerSubmitting
     /\ ~WellFormedFrom(call.txOptions))
        => (/\ pc = "settled"
            /\ result.status \in {"rejected", "thrown"}
            /\ Requests(net) = <<>>)

\* C1 amended: whenever a mutating operation of BrandedToken (deploy,
\* requestStake, acceptStakeRequest, rejectStakeRequest, liftRestriction,
\* redeem) runs with a missing txOptions or a malformed `from`, it has
\* rejected with a validation error and the connection has recorded no read
\* and no submission.
C1_BrandedTokenRejectsMalformedFrom ==
    (/\ InProgress
     /\ call.op \in BrandedTokenSubmitting
     /\ ~WellFormedFrom(call.txOptions))
        => (/\ RejectedBeforeNetwork
            /\ Requests(net) = <<>>)

\* redeem of a truthy amount with a malformed `from` has rejected
C1_Witness ==
    /\ call.op = "redeem"
    /\ call.args = <<Str("100")>>
    /\ call.txOptions = TxOptions(Str("0xZZ"), Undefined)
    /\ RejectedBeforeNetwork

(***************************************************************************)
(* C2                                                                      *)
(***************************************************************************)
\* C2: BrandedToken.requestStake(amount, txOptions) with a well-formed `from`
\* first issues the read convertToBrandedTokens(amount); while the read is
\* pending nothing is submitted; if the read rejects nothing is ever
\* submitted; if it resolves with m, exactly one requestStake(amount, m) is
\* submitted.
C2_RequestStakeReadsThenSubmits ==
    (/\ InProgress
     /\ call.op = "requestStake"
     /\ WellFormedFrom(call.txOptions))
        => (/\ Len(net) >= 1
            /\ net[1].kind = "call"
            /\ net[1].tx.method = "convertToBrandedTokens"
            /\ net[1].tx.args = <<call.args[1]>>
            /\ pc = "reading" <=> Len(net) = 1
            /\ Len(net) >= 2 => net[2].kind \in {"value", "error"}
            /\ (Len(net) >= 2 /\ net[2].kind = "error")
                   => (/\ Sends(net) = <<>>
                       /\ pc = "settled"
                       /\ result = Rejected(net[2].value))
            /\ (Len(net) >= 2 /\ net[2].kind = "value")
                   => (/\ Len(Sends(net)) = 1
                       /\ net[3].kind = "send"
                       /\ net[3].tx.method = "requestStake"
                       /\ net[3].tx.contract = bt.address.s
                       /\ net[3].tx.args = <<call.args[1], Str(net[2].value)>>))

\* a requestStake whose read resolved with 700 has submitted (100, 700)
C2_Witness ==
    /\ call.op = "requestStake"
    /\ pc = "sending"
    /\ net[2].value = "700"
    /\ net[3].tx.args = <<Str("100"), Str("700")>>

(***************************************************************************)
(* C3                                                                      *)
(***************************************************************************)
IsApproval(e) == e.tx.method = "approve"
IsComposerRequestStake(e) ==
    e.tx.method = "requestStake" /\ e.tx.contract = staker.gatewayComposer.s
NonEmptyAbi(v) == v.kind = "array" /\ v.a # <<>>

\* C3: in every run of Staker.stake with a value-token ABI, the approval
\* submission approve(composer, stakeAmount) is issued, and the composer
\* requestStake submission starts only after an approval submission has been
\* issued and has completed: a stake that has settled has issued the
\* approval, and every composer submission in the trace is preceded by an
\* approval submission and by that submission's receipt.
C3_ApprovalSubmittedBeforeComposer ==
    (InProgress /\ call.op = "Staker.stake" /\ NonEmptyAbi(call.args[2]))
        => (/\ pc = "settled"
                  => \E j \in 1..Len(net) :
                        net[j].kind = "send" /\ IsApproval(net[j])
            /\ \A i \in 1..Len(net) :
                  (net[i].kind = "send" /\ IsComposerRequestStake(net[i]))
                     => \E j \in 1..(i - 1), k \in 1..(i - 1) :
                           /\ j < k
                           /\ net[j].kind = "send" /\ IsApproval(net[j])
                           /\ net[k].kind = "receipt" /\ IsApproval(net[k]))

(***************************************************************************)
(* C4                                                                      *)
(***************************************************************************)
\* the deployment arguments as the caller gave them
ConversionRate == call.args[5]
ConversionRateDecimals == call.args[6]

\* C4: a deploy or deployRawTx whose conversionRate is a number <= 0 or
\* whose conversionRateDecimals is a number > 5 has failed with a validation
\* error, whatever the other parameters are; no deployment descriptor was
\* built and the connection has recorded nothing.
C4_BadConversionRejectsDeployment ==
    (/\ InProgress
     /\ call.op \in {"deploy", "deployRawTx"}
     /\ \/ ConversionRate.kind = "number" /\ ConversionRate.n <= 0
        \/ ConversionRateDecimals.kind = "number" /\ ConversionRateDecimals.n > 5)
        => (/\ pc = "settled"
            /\ result.status = (IF call.op = "deploy" THEN "rejected" ELSE "thrown")
            /\ result.error = ValidationError
            /\ result.tx = NoTx
            /\ net = <<>>)

\* an otherwise valid deploy with conversionRate 0 has been rejected
C4_Witness ==
    /\ call.op = "deploy"
    /\ call.web3 = "web3"
    /\ WellFormedFrom(call.txOptions)
    /\ WellFormed(call.args[1]) /\ WellFormed(call.args[7])
    /\ ConversionRate = Num(0)
    /\ ConversionRateDecimals = Num(5)
    /\ RejectedBeforeNetwork

(***************************************************************************)
(* C5                                                                      *)
(***************************************************************************)
AnyFalsyField == \E i \in 1..Len(call.args) : Falsy(call.args[i])

\* C5: an acceptStakeRequest (stakeRequestHash, r, s, v) or rejectStakeRequest
\* (stakeRequestHash), submitting or raw, with any one field falsy has
\* rejected with a validation error and nothing has been handed to the
\* TransactionSender; with every field truthy and a well-formed `from`, the
\* submitting form has handed exactly one call to the TransactionSender,
\* carrying the fields in the order given.
C5_FalsyFieldRejects ==
    /\ (/\ InProgress
        /\ call.op \in {"acceptStakeRequest", "rejectStakeRequest",
                         "acceptStakeRequestRawTx", "rejectStakeRequestRawTx"}
        /\ AnyFalsyField)
           => RejectedBeforeNetwork
    /\ (/\ InProgress
        /\ call.op \in {"acceptStakeRequest", "rejectStakeRequest"}
        /\ ~AnyFalsyField
        /\ WellFormedFrom(call.txOptions))
           => (/\ Len(Sends(net)) = 1
               /\ net[1].kind = "send"
               /\ net[1].tx.method = call.op
               /\ net[1].tx.contract = bt.address.s
               /\ net[1].tx.args = call.args
               /\ net[1].options = call.txOptions)

\* an acceptStakeRequest whose only falsy field is v = 0 has been rejected
C5_Witness ==
    /\ call.op = "acceptStakeRequest"
    /\ call.args = <<Str("0xh1"), Num(27), Str("0xh1"), Num(0)>>
    /\ WellFormedFrom(call.txOptions)
    /\ RejectedBeforeNetwork

(***************************************************************************)
(* C6                                                                      *)
(***************************************************************************)
AddressList == call.args[1]

\* C6: liftRestriction, submitting or raw, with an empty or missing address
\* list has rejected with a validation error and submitted nothing; with a
\* non-empty list the descriptor built is the liftRestriction method with
\* the caller's list as its single argument.
C6_LiftRestrictionList ==
    (InProgress /\ call.op \in {"liftRestriction", "liftRestrictionRawTx"})
        => (/\ (AddressList.kind # "array" \/ AddressList.a = <<>>)
                   => RejectedBeforeNetwork
            /\ (AddressList.kind = "array" /\ AddressList.a # <<>>
                   /\ call.op = "liftRestrictionRawTx")
                   => (/\ result.status = "resolved"
                       /\ result.tx.method = "liftRestriction"
                       /\ result.tx.contract = bt.address.s
                       /\ result.tx.args = <<AddressList>>)
            /\ (AddressList.kind = "array" /\ AddressList.a # <<>>
                   /\ call.op = "liftRestriction"
                   /\ WellFormedFrom(call.txOptions))
                   => (/\ Len(Sends(net)) = 1
                       /\ net[1].tx.method = "liftRestriction"
                       /\ net[1].tx.args = <<AddressList>>))

\* liftRestrictionRawTx([addr]) has built the descriptor with args [[addr]]
C6_Witness ==
    /\ call.op = "liftRestrictionRawTx"
    /\ AddressList = Arr(<<"0xA1">>)
    /\ result.tx.args = <<Arr(<<"0xA1">>)>>

(***************************************************************************)
(* C7                                                                      *)
(***************************************************************************)
Owner == call.args[1]
Supplied(v, default) == IF v.kind # "undefined" THEN v ELSE default

\* C7: the options handed to the composer requestStake submission are the
\* caller's txOptions merged over {from: owner, to: composer, gas: 8000000}:
\* gas, from and to of every composer submission are the caller's value
\* where one is supplied and the default otherwise.
C7_SubmissionOptionsMerged ==
    (InProgress /\ call.op \in StakerSubmitting)
        => \A i \in 1..Len(net) :
              (net[i].kind = "send" /\ IsComposerRequestStake(net[i]))
                 => (/\ net[i].options.gas
                           = Supplied(call.txOptions.gas, Str("8000000"))
                     /\ net[i].options.from = Supplied(call.txOptions.from, Owner)
                     /\ net[i].options.to
                           = Supplied(call.txOptions.to, staker.gatewayComposer))

(***************************************************************************)
(* C8                                                                      *)
(***************************************************************************)
\* C8: a step that is a call of a raw form (deployRawTx, requestStakeRawTx,
\* acceptStakeRequestRawTx, rejectStakeRequestRawTx, liftRestrictionRawTx,
\* redeemRawTx, _requestStakeRawTx), with valid or invalid arguments, leaves
\* the number of submissions made through the connection unchanged, records
\* no request on the connection and leaves nothing in flight.
C8_RawFormsSubmitNothing ==
    [][call'.op \in RawForms
          => (/\ submissions' = submissions
              /\ Requests(net') = <<>>
              /\ pc' = "settled")]_vars

\* a raw form has returned its descriptor after an earlier call submitted
C8_Witness ==
    /\ call.op = "Staker._requestStakeRawTx"
    /\ result.status = "returned"
    /\ result.tx.method = "requestStake"
    /\ submissions = 1

(***************************************************************************)
(* C9                                                                      *)
(***************************************************************************)
\* the inputs of the BrandedToken call in progress pass its validation (a
\* null conversionRateDecimals compares as 0 and so satisfies <= 5)
PassesValidation ==
    /\ WellFormedFrom(call.txOptions)
    /\ CASE call.op = "deploy" ->
               /\ call.web3 = "web3"
               /\ WellFormed(call.args[1]) /\ WellFormed(call.args[7])
               /\ ConversionRate.kind = "number" /\ ConversionRate.n > 0
               /\ \/ ConversionRateDecimals.kind = "number"
                        /\ ConversionRateDecimals.n <= 5
                  \/ ConversionRateDecimals = Null
         [] call.op = "requestStake" -> TRUE
         [] call.op = "liftRestriction" ->
               AddressList.kind = "array" /\ AddressList.a # <<>>
         [] OTHER -> ~AnyFalsyField

ReadRejected ==
    call.op = "requestStake" /\ Len(net) >= 2 /\ net[2].kind = "error"

\* the descriptor the call in progress builds from its arguments
BuiltMethod == IF call.op = "deploy" THEN "deploy" ELSE call.op
BuiltArgs ==
    IF call.op = "requestStake" THEN <<call.args[1], Str(net[2].value)>>
    ELSE call.args

\* C9 as stated: a BrandedToken submitting operation whose inputs pass
\* validation has, once settled, invoked the TransactionSender exactly once.
C9_ValidInputsSubmitExactlyOnce ==
    (/\ pc = "settled"
     /\ call.op \in BrandedTokenSubmitting
     /\ PassesValidation)
        => Len(Sends(net)) = 1

\* C9 amended: a BrandedToken submitting operation whose inputs pass
\* validation (and, for requestStake, whose conversion read did not reject)
\* invokes the TransactionSender exactly once, with the built descriptor and
\* the caller's txOptions, and never more than once; when the sender rejects
\* with e the operation has rejected with e; when it resolves with a receipt
\* the operation yields that receipt (deploy: a client bound to the
\* receipt's contractAddress).
C9_SenderOnceAndPassThrough ==
    (/\ InProgress
     /\ call.op \in BrandedTokenSubmitting
     /\ PassesValidation)
        => (/\ Len(Sends(net)) <= 1
            /\ (pc \in {"sending", "settled"} /\ ~ReadRejected)
                  => (/\ Len(Sends(net)) = 1
                      /\ Sends(net)[1].tx.method = BuiltMethod
                      /\ Sends(net)[1].tx.args = BuiltArgs
                      /\ Sends(net)[1].options = call.txOptions)
            /\ (pc = "settled" /\ LastEvent.kind = "error")
                  => result = Rejected(LastEvent.value)
            /\ (pc = "settled" /\ LastEvent.kind = "receipt")
                  => IF call.op = "deploy"
                     THEN /\ result.status = "resolved"
                          /\ result.client.web3 = call.web3
                          /\ result.client.address = Str(LastEvent.value)
                          /\ result.client.contract.address
                                = Str(LastEvent.value)
                     ELSE result = Resolved(Str(LastEvent.value)))

\* an acceptStakeRequest whose one submission the sender rejected with
\* "revert" has rejected with "revert"
C9_Witness ==
    /\ call.op = "acceptStakeRequest"
    /\ pc = "settled"
    /\ Len(Sends(net)) = 1
    /\ LastEvent.kind = "error"
    /\ result = Rejected("revert")

(***************************************************************************)
(* C10                                                                     *)
(***************************************************************************)
\* the preconditions of deploy hold of the call in progress (a null
\* conversionRateDecimals compares as 0 and so satisfies <= 5)
DeployPreconditions ==
    /\ call.web3 = "web3"
    /\ WellFormedFrom(call.txOptions)
    /\ WellFormed(call.args[1])
    /\ WellFormed(call.args[7])
    /\ ConversionRate.kind = "number" /\ ConversionRate.n > 0
    /\ \/ ConversionRateDecimals.kind = "number" /\ ConversionRateDecimals.n <= 5
       \/ ConversionRateDecimals = Null

\* C10: a deploy whose preconditions hold submits exactly one deployment
\* descriptor carrying the contract binary and the constructor arguments
\* (valueToken, symbol, name, decimals, conversionRate,
\* conversionRateDecimals, organization) in that order, and once the
\* submission resolves it has resolved to a client whose address is the
\* receipt's contractAddress; a deploy with a precondition violated has
\* failed with a validation error and the connection has recorded nothing.
C10_DeploySubmitsConstructorArgs ==
    (InProgress /\ call.op = "deploy")
        => IF DeployPreconditions
           THEN /\ pc \in {"sending", "settled"}
                /\ Len(Sends(net)) = 1
                /\ net[1].kind = "send"
                /\ net[1].tx.method = "deploy"
                /\ net[1].tx.data = "bin:BrandedToken"
                /\ net[1].tx.args
                      = <<call.args[1], Symbol, Name, Decimals, ConversionRate,
                          ConversionRateDecimals, call.args[7]>>
                /\ (pc = "settled" /\ LastEvent.kind = "receipt")
                      => (/\ result.status = "resolved"
                          /\ result.client.address = Str(LastEvent.value))
                /\ result.status = "resolved"
                      => (/\ LastEvent.kind = "receipt"
                          /\ result.client.address = Str(LastEvent.value))
           ELSE RejectedBeforeNetwork

\* a deploy of value token 0xA1 at rate 35 with 5 decimals for organization
\* 0xB2 has resolved to a client at the receipt's contractAddress 0xD4
C10_Witness ==
    /\ call.op = "deploy"
    /\ call.args[1] = Str("0xA1") /\ call.args[7] = Str("0xB2")
    /\ ConversionRate = Num(35) /\ ConversionRateDecimals = Num(5)
    /\ pc = "settled"
    /\ LastEvent.value = "0xD4"
    /\ result.client.address = Str("0xD4")

(***************************************************************************)
(* C11                                                                     *)
(***************************************************************************)
\* C11: a redeem(amount, txOptions) whose amount is falsy or whose
\* txOptions.from is not a well-formed address has rejected with a
\* validation error and the connection has recorded no submission; a redeem
\* with a truthy amount and a well-formed `from` has made exactly one
\* submission, and nothing else: the call redeem(amount) on the client's
\* contract, with `amount` as its only argument.
C11_RedeemValidatesThenSubmitsOnce ==
    (InProgress /\ call.op = "redeem")
        => IF Falsy(call.args[1]) \/ ~WellFormedFrom(call.txOptions)
           THEN /\ RejectedBeforeNetwork
                /\ Sends(net) = <<>>
           ELSE /\ pc \in {"sending", "settled"}
                /\ Len(Requests(net)) = 1
                /\ net[1].kind = "send"
                /\ net[1].tx.contract = bt.address.s
                /\ net[1].tx.method = "redeem"
                /\ net[1].tx.args = <<call.args[1]>>

\* a redeem of the amount 0 from the well-formed 0xA1 has rejected before
\* anything reached the connection
C11_Witness ==
    /\ call.op = "redeem"
    /\ call.args = <<Num(0)>>
    /\ call.txOptions = TxOptions(Str("0xA1"), Undefined)
    /\ RejectedBeforeNetwork

(***************************************************************************)
(* C12                                                                     *)
(***************************************************************************)
\* a client whose connection is valid, whose address is well-formed and
\* whose contract handle is non-empty and bound to that connection and
\* address
ValidClient(c) ==
    /\ c.web3 = "web3"
    /\ WellFormed(c.address)
    /\ c.contract # NoContract
    /\ c.contract.address = c.address
    /\ c.contract.web3 = c.web3
Constructing == pc = "idle" /\ call'.op = "new BrandedToken"
Located == call'.args[2] # NoContract

\* C12: a construction with an invalid connection, a malformed address or a
\* contract the registry cannot locate throws a construction error and
\* yields no client, and any other construction returns a client with
\* exactly the given connection, the given address and the located handle;
\* every client that exists (the one in use, and the one a call yields) has
\* a valid connection, a well-formed address and a non-empty handle bound to
\* that address; and no step other than a construction changes the
\* connection, address or handle of the client in use.
C12_ClientValidAndNeverChanged ==
    [][/\ ValidClient(bt) /\ ValidClient(bt')
       /\ result'.client # NoClient => ValidClient(result'.client)
       /\ Constructing
             => IF call'.web3 = "web3" /\ WellFormed(call'.args[1]) /\ Located
                THEN /\ result'.status = "returned"
                     /\ result'.client
                           = [web3 |-> call'.web3, address |-> call'.args[1],
                              contract |-> call'.args[2]]
                     /\ bt' = result'.client
                ELSE /\ pc' = "settled"
                     /\ result' = Thrown(ValidationError)
                     /\ net' = <<>>
                     /\ bt' = bt
       /\ ~Constructing
             => (/\ bt'.web3 = bt.web3
                 /\ bt'.address = bt.address
                 /\ bt'.contract = bt.contract)]_vars

\* a client constructed at 0xA1 has since served a redeem whose submission
\* resolved, and is still the client at 0xA1
C12_Witness ==
    /\ bt.address = Str("0xA1")
    /\ bt.contract.address = Str("0xA1")
    /\ call.op = "redeem"
    /\ pc = "settled"
    /\ LastEvent.kind = "receipt"
    /\ LastEvent.tx.contract = "0xA1"

(***************************************************************************)
(* C13                                                                     *)
(***************************************************************************)
\* the observer requestStake registers for each event of the submission
ObserverFor(event) ==
    CASE event = "transactionHash" -> "logTransactionHash"
      [] event = "receipt" -> "logReceipt"
      [] event = "error" -> "logError"

\* C13: once the Staker's requestStake has submitted, it has submitted the
\* composer call once and registered three observers on the pending
\* submission; for every event the submission has emitted so far
\* (transactionHash, receipt or error) the observer registered for that
\* event has run, in the order of the emissions; and once the submission
\* has settled, requestStake has yielded what the submission yielded.
C13_ObserversRunOnSubmissionEvents ==
    (/\ call.op = "Staker.requestStake"
     /\ pc \in {"sending", "settled"}
     /\ Sends(net) # <<>>)
        => (/\ Len(Sends(net)) = 1
            /\ IsComposerRequestStake(net[1])
            /\ Cardinality(pending.observers) = 3
            /\ Len(pending.ran) = Len(pending.emitted)
            /\ \A i \in 1..Len(pending.emitted) :
                   /\ pending.emitted[i] \in {"transactionHash", "receipt", "error"}
                   /\ pending.ran[i] = ObserverFor(pending.emitted[i])
            /\ (pc = "settled" /\ LastEvent.kind = "receipt")
                   => result = Resolved(Str(LastEvent.value))
            /\ (pc = "settled" /\ LastEvent.kind = "error")
                   => result = Rejected(LastEvent.value))

(***************************************************************************)
(* C14                                                                     *)
(***************************************************************************)
Lookups ==
    {"Staker._getStakeRequestHashForStakerRawTx", "Staker._getStakeRequestRawTx",
     "Staker._getGCStakeRequestRawTx"}
\* the address and the method each read of the Staker is made against
LookupAddress ==
    CASE call.op = "Staker._getGCStakeRequestRawTx" -> staker.gatewayComposer
      [] call.op \in Lookups -> staker.brandedToken
      [] OTHER -> Supplied(call.args[2], staker.brandedToken)
LookupMethod ==
    CASE call.op = "Staker._getStakeRequestHashForStakerRawTx" -> "stakeRequestHashes"
      [] call.op \in Lookups -> "stakeRequests"
      [] OTHER -> "convertToBrandedTokens"

\* C14: each of the three stake-request lookups, and convertToBTToken, has
\* not failed, whether or not a connection argument was passed: it has
\* issued exactly one read, of the hash (or staker, or amount) it was given,
\* against the branded-token address (the composer address for
\* _getGCStakeRequestRawTx), and has submitted nothing.
C14_LookupsReadOnceWithOrWithoutConnection ==
    (InProgress /\ call.op \in Lookups \cup {"Staker.convertToBTToken"})
        => (/\ result.status # "thrown"
            /\ Len(Requests(net)) = 1
            /\ Sends(net) = <<>>
            /\ net[1].kind = "call"
            /\ net[1].tx.contract = LookupAddress.s
            /\ net[1].tx.method = LookupMethod
            /\ net[1].tx.args = <<call.args[1]>>)

====
